---- MODULE Spec2Model ----
(***************************************************************************)
(* Speaker alignment and transcript assembly of the record-then-process    *)
(* speech component (src/src/repositories/TextToSpeechRepository.js).      *)
(*                                                                         *)
(* Times are whole ticks of 1/20 s (0.5 s = 10, 1.5 s = 30, 1 s = 20), so  *)
(* the overlap ratio 0.35 = 7/20 is reachable exactly.  Confidences are    *)
(* hundredths (0.8 = 80).  JavaScript strings are sequences of one-        *)
(* character strings, so that trim, template literals and join are         *)
(* computed rather than assumed.  Arithmetic is exact: the rounding of     *)
(* JavaScript's floating-point numbers is not modelled.                    *)
(*                                                                         *)
(* The streaming microphone component                                      *)
(* (src/src/components/reusable/MicButton.vue) and its recognition worker  *)
(* (src/unnamed/part_003) are modelled from the moment the worker has      *)
(* reported 'ready'.  Their clock runs in ticks of 200 ms (1000 ms = 5):   *)
(* the code only ever compares Date.now() with a stored time, so the model *)
(* keeps the elapsed time since each stored time, capped at the value it   *)
(* is compared with.  The marker [BLANK_AUDIO] is one element of a string. *)
(* Interface-only fields (button image, tokens per second, load progress)  *)
(* are left out.                                                           *)
(***************************************************************************)
EXTENDS Integers, Sequences, FiniteSets, TLC

VARIABLES
    transcription,      \* mergeResults argument: transcription.chunks
    diarization,        \* mergeResults argument: raw diarization segments
    validSegments,      \* const validSegments of mergeResults
    formattedSegments,  \* the reduce accumulator acc / formattedSegments
    speakers,           \* the value of `speaker` for each chunk reduced so far
    k,                  \* index of the next chunk the reduce visits
    formattedText,      \* formattedText of the returned object
    pc,                 \* position inside mergeResults
    alignTimestamp,     \* findOptimalSpeaker argument [start, end]
    alignSegments,      \* findOptimalSpeaker argument segments
    alignLabel,         \* findOptimalSpeaker return value
    alignPc,            \* position of the findOptimalSpeaker call
    mic,                \* MicButton.vue: the component's refs and variables
    wk,                 \* part_003: the worker's variables and running calls
    toMain,             \* messages posted by the worker, not yet handled
    rec,                \* TextToSpeechRepository.js: the recording component
    ld                  \* the model loaders of the worker and of WebLLM

vars == <<transcription, diarization, validSegments, formattedSegments,
          speakers, k, formattedText, pc,
          alignTimestamp, alignSegments, alignLabel, alignPc,
          mic, wk, toMain, rec, ld>>

mergeVars == <<transcription, diarization, validSegments, formattedSegments,
               speakers, k, formattedText, pc>>

alignVars == <<alignTimestamp, alignSegments, alignLabel, alignPc>>

streamVars == <<mic, wk, toMain>>

recordVars == <<rec>>

loaderVars == <<ld>>

\* no microphone component is mounted
StreamIdle ==
    /\ mic = << >>
    /\ wk = << >>
    /\ toMain = << >>

\* no recording component is mounted
RecordIdle == rec = << >>

\* no loader is in use
LoaderIdle == ld = << >>

----------------------------------------------------------------------------
(* Bounds *)

MaxChunks == 3

MaxSegments == 2

MaxAlignSegments == 2

----------------------------------------------------------------------------
(* Program constants, in ticks and hundredths *)

MinDuration == 10

MinConfidence == 80

overlapThreshold == 35

MergeGap == 30

----------------------------------------------------------------------------
(* Strings *)

Max(a, b) == IF a >= b THEN a ELSE b

Min(a, b) == IF a <= b THEN a ELSE b

Abs(a) == IF a < 0 THEN 0 - a ELSE a

WhiteSpace == {" ", "\t", "\n"}

RECURSIVE trimStart(_)
trimStart(s) ==
    IF s # << >> /\ Head(s) \in WhiteSpace THEN trimStart(Tail(s)) ELSE s

RECURSIVE trimEnd(_)
trimEnd(s) ==
    IF s # << >> /\ s[Len(s)] \in WhiteSpace
    THEN trimEnd(SubSeq(s, 1, Len(s) - 1))
    ELSE s

trim(s) == trimEnd(trimStart(s))

RECURSIVE join(_, _)
join(strs, sep) ==
    IF strs = << >> THEN << >>
    ELSE IF Len(strs) = 1 THEN strs[1]
    ELSE strs[1] \o sep \o join(Tail(strs), sep)

GenericSpeaker == <<"S", "p", "e", "a", "k", "e", "r">>

SpeakerPrefix == <<"S", "p", "e", "a", "k", "e", "r", "_">>

----------------------------------------------------------------------------
(* preprocessDiarization *)

keepDuration_strict(segment) == segment.end - segment.start > MinDuration

keepDuration(segment) == segment.end - segment.start >= MinDuration

keepConfidence(segment) == segment.confidence >= MinConfidence

withLabel_idOnly(segment) ==
    [segment EXCEPT !.label =
        IF segment.label # << >> THEN segment.label ELSE segment.id]

withLabel(segment) ==
    [segment EXCEPT !.label =
        IF segment.label # << >> THEN segment.label
        ELSE SpeakerPrefix \o segment.id]

preprocessDiarization(d) ==
    LET kept == SelectSeq(SelectSeq(d, keepDuration), keepConfidence)
    IN  [i \in 1..Len(kept) |-> withLabel(kept[i])]

----------------------------------------------------------------------------
(* findOptimalSpeaker *)

isContaining(start, end, segment) ==
    segment.start <= start /\ segment.end >= end

overlapDuration(start, end, segment) ==
    Max(0, Min(end, segment.end) - Max(start, segment.start))

reachesThreshold_strict(overlap, chunkDuration) ==
    IF chunkDuration > 0 THEN overlap * 100 > overlapThreshold * chunkDuration
    ELSE IF chunkDuration = 0 THEN overlap > 0
    ELSE FALSE

\* overlapDuration / chunkDuration >= overlapThreshold; a zero chunkDuration
\* gives NaN (0/0, comparison false) or Infinity (comparison true)
reachesThreshold(overlap, chunkDuration) ==
    IF chunkDuration > 0 THEN overlap * 100 >= overlapThreshold * chunkDuration
    ELSE IF chunkDuration = 0 THEN overlap > 0
    ELSE FALSE

hasMeaningfulOverlap(start, end, segment) ==
    reachesThreshold(overlapDuration(start, end, segment), end - start)

moreConfident_lowest(best, current) ==
    IF current.confidence < best.confidence THEN current ELSE best

moreConfident(best, current) ==
    IF current.confidence > best.confidence THEN current ELSE best

\* reduce without an initial value: best starts as the first element
RECURSIVE reduceConfidence(_, _)
reduceConfidence(best, rest) ==
    IF rest = << >> THEN best
    ELSE reduceConfidence(moreConfident(best, Head(rest)), Tail(rest))

highestConfidence(segments) ==
    reduceConfidence(Head(segments), Tail(segments))

\* twice the distance between the segment midpoint and the chunk midpoint
midDistance(start, end, segment) ==
    Abs((segment.start + segment.end) - (start + end))

closer_orEqual(distance, minDistance) == distance <= minDistance

closer_farther(distance, minDistance) == distance > minDistance

closer(distance, minDistance) == distance < minDistance

\* the for-loop of Case 3; bestMatch is << >> for null, minDistance -1 for Infinity
RECURSIVE midpointLoop(_, _, _, _, _)
midpointLoop(start, end, rest, bestMatch, minDistance) ==
    IF rest = << >> THEN bestMatch
    ELSE LET segment == Head(rest)
             distance == midDistance(start, end, segment)
         IN  IF minDistance = -1 \/ closer(distance, minDistance)
             THEN midpointLoop(start, end, Tail(rest), <<segment>>, distance)
             ELSE midpointLoop(start, end, Tail(rest), bestMatch, minDistance)

orGeneric_noFallback(bestMatch) ==
    IF bestMatch # << >> THEN bestMatch[1].label ELSE << >>

orGeneric(bestMatch) ==
    IF bestMatch # << >> /\ bestMatch[1].label # << >>
    THEN bestMatch[1].label
    ELSE GenericSpeaker

findOptimalSpeaker_pooled(timestamp, segments) ==
    LET start == timestamp[1]
        end == timestamp[2]
        valid(s) == isContaining(start, end, s)
                        \/ hasMeaningfulOverlap(start, end, s)
        validSegs == SelectSeq(segments, valid)
    IN  IF Len(validSegs) > 0 THEN highestConfidence(validSegs).label
        ELSE orGeneric(midpointLoop(start, end, segments, << >>, -1))

findOptimalSpeaker(timestamp, segments) ==
    LET start == timestamp[1]
        end == timestamp[2]
        contains(s) == isContaining(start, end, s)
        overlaps(s) == hasMeaningfulOverlap(start, end, s)
        containingSegments == SelectSeq(segments, contains)
        overlappingSegments == SelectSeq(segments, overlaps)
    IN  IF Len(containingSegments) = 1 THEN containingSegments[1].label
        ELSE IF Len(containingSegments) > 1
             THEN highestConfidence(containingSegments).label
        ELSE IF Len(overlappingSegments) > 0
             THEN highestConfidence(overlappingSegments).label
        ELSE orGeneric(midpointLoop(start, end, segments, << >>, -1))

----------------------------------------------------------------------------
(* mergeSegments and generateReadableText *)

shouldMerge_inclusive(acc, chunk, speaker) ==
    /\ acc # << >>
    /\ acc[Len(acc)].speaker = speaker
    /\ chunk.timestamp[1] - acc[Len(acc)].end <= MergeGap

shouldMerge_fromEnd(acc, chunk, speaker) ==
    /\ acc # << >>
    /\ acc[Len(acc)].speaker = speaker
    /\ chunk.timestamp[2] - acc[Len(acc)].end < MergeGap

shouldMerge_anyGap(acc, chunk, speaker) ==
    /\ acc # << >>
    /\ acc[Len(acc)].speaker = speaker

shouldMerge(acc, chunk, speaker) ==
    /\ acc # << >>
    /\ acc[Len(acc)].speaker = speaker
    /\ chunk.timestamp[1] - acc[Len(acc)].end < MergeGap

mergeSegments_keepsEnd(acc, chunk, speaker) ==
    LET newSegment == [start |-> chunk.timestamp[1],
                       end |-> chunk.timestamp[2],
                       text |-> trim(chunk.text),
                       speaker |-> speaker]
    IN  IF shouldMerge(acc, chunk, speaker)
        THEN [acc EXCEPT ![Len(acc)] =
                 [@ EXCEPT !.text = @ \o <<" ">> \o newSegment.text]]
        ELSE Append(acc, newSegment)

mergeSegments(acc, chunk, speaker) ==
    LET newSegment == [start |-> chunk.timestamp[1],
                       end |-> chunk.timestamp[2],
                       text |-> trim(chunk.text),
                       speaker |-> speaker]
    IN  IF shouldMerge(acc, chunk, speaker)
        THEN [acc EXCEPT ![Len(acc)] =
                 [@ EXCEPT !.text = @ \o <<" ">> \o newSegment.text,
                           !.end = newSegment.end]]
        ELSE Append(acc, newSegment)

renderSegment(s) == s.speaker \o <<":", " ">> \o s.text

generateReadableText_newline(segments) ==
    join([i \in 1..Len(segments) |-> renderSegment(segments[i])], <<"\n">>)

generateReadableText(segments) ==
    join([i \in 1..Len(segments) |-> renderSegment(segments[i])], <<"\n", "\n">>)

----------------------------------------------------------------------------
(* Inputs of mergeResults *)

SeqsUpTo(S, n) == UNION {[1..m -> S] : m \in 0..n}

Chars_hello == <<"h", "e", "l", "l", "o">>

Chars_there == <<"t", "h", "e", "r", "e">>

Chars_how_are_you == <<"h", "o", "w", " ", "a", "r", "e", " ", "y", "o", "u">>

Chunk(start, end, text) == [timestamp |-> <<start, end>>, text |-> text]

\* recognizer chunks: timestamps in ticks, raw text as the recognizer gives it
ChunkPool ==
    { Chunk(0, 20, Chars_hello),
      Chunk(20, 40, Chars_there),
      Chunk(40, 40, << >>),
      Chunk(60, 80, Chars_how_are_you),
      Chunk(68, 80, <<" ", "h", "i", " ">>),
      Chunk(70, 80, <<"o", "k", "\n">>),
      Chunk(72, 80, <<" ", "s", "o">>),
      Chunk(120, 140, <<"b", "y", "e">>) }

\* start <= end within a chunk, and a chunk starts after the one before it
\* started and not before it ended
IsChronological(chunks) ==
    \A i \in 1..(Len(chunks) - 1) :
        /\ chunks[i].timestamp[1] < chunks[i + 1].timestamp[1]
        /\ chunks[i].timestamp[2] <= chunks[i + 1].timestamp[1]

Transcriptions ==
    {chunks \in SeqsUpTo(ChunkPool, MaxChunks) : IsChronological(chunks)}

RawSegment(id, start, end, confidence, label) ==
    [id |-> id, start |-> start, end |-> end,
     confidence |-> confidence, label |-> label]

\* what post_process_speaker_diarization returns carries id, start, end and
\* confidence; label is absent (<< >>) unless a provider sets it
RawSpans ==
    { <<<<"A">>, 0, 40>>, <<<<"B">>, 60, 100>>, <<<<"C">>, 0, 100>> }

RawConfidences == {79, 80, 90}

RawSegmentPool ==
    { RawSegment(sp[1], sp[2], sp[3], c, << >>) :
        sp \in RawSpans, c \in RawConfidences }
    \cup { RawSegment(<<"D">>, 60, 68, 90, << >>),
           RawSegment(<<"E">>, 60, 70, 80, << >>),
           RawSegment(<<"1">>, 60, 100, 95, <<"B", "o", "b">>) }

Diarizations == SeqsUpTo(RawSegmentPool, MaxSegments)

----------------------------------------------------------------------------
(* mergeResults, one step per statement of the function *)

AlignIdle ==
    /\ alignTimestamp = <<0, 0>>
    /\ alignSegments = << >>
    /\ alignLabel = << >>
    /\ alignPc = "idle"

Init ==
    /\ transcription \in Transcriptions
    /\ diarization \in Diarizations
    /\ validSegments = << >>
    /\ formattedSegments = << >>
    /\ speakers = << >>
    /\ k = 1
    /\ formattedText = << >>
    /\ pc = "preprocess"
    /\ AlignIdle
    /\ StreamIdle
    /\ RecordIdle
    /\ LoaderIdle

Preprocess ==
    /\ pc = "preprocess"
    /\ validSegments' = preprocessDiarization(diarization)
    /\ pc' = "reduce"
    /\ UNCHANGED <<transcription, diarization, formattedSegments, speakers,
                   k, formattedText>>
    /\ UNCHANGED alignVars
    /\ UNCHANGED <<streamVars, recordVars, loaderVars>>

ReduceStep ==
    /\ pc = "reduce"
    /\ k <= Len(transcription)
    /\ LET chunk == transcription[k]
           speaker == findOptimalSpeaker(chunk.timestamp, validSegments)
       IN  /\ speakers' = Append(speakers, speaker)
           /\ formattedSegments' = mergeSegments(formattedSegments, chunk, speaker)
    /\ k' = k + 1
    /\ UNCHANGED <<transcription, diarization, validSegments, formattedText, pc>>
    /\ UNCHANGED alignVars
    /\ UNCHANGED <<streamVars, recordVars, loaderVars>>

Return ==
    /\ pc = "reduce"
    /\ k > Len(transcription)
    /\ formattedText' = generateReadableText(formattedSegments)
    /\ pc' = "done"
    /\ UNCHANGED <<transcription, diarization, validSegments,
                   formattedSegments, speakers, k>>
    /\ UNCHANGED alignVars
    /\ UNCHANGED <<streamVars, recordVars, loaderVars>>

Next == Preprocess \/ ReduceStep \/ Return

Spec == Init /\ [][Next]_vars

----------------------------------------------------------------------------
(* findOptimalSpeaker called on its own *)

AlignStamps == { <<40, 60>>, <<40, 40>>, <<20, 40>>, <<0, 100>> }

AlignSpans ==
    { <<20, 80>>, <<40, 60>>, <<20, 47>>, <<20, 46>>, <<53, 63>>, <<54, 64>>,
      <<0, 20>>, <<80, 100>>, <<0, 30>>, <<65, 120>>, <<66, 120>> }

AlignConfidences == {90, 95}

AlignLabels == { <<"A">>, <<"B">> }

\* segments as preprocessDiarization leaves them: long enough, confident
\* enough, labelled
AlignSegmentPool ==
    { RawSegment(l, sp[1], sp[2], c, l) :
        sp \in AlignSpans, c \in AlignConfidences, l \in AlignLabels }

MergeIdle ==
    /\ transcription = << >>
    /\ diarization = << >>
    /\ validSegments = << >>
    /\ formattedSegments = << >>
    /\ speakers = << >>
    /\ k = 1
    /\ formattedText = << >>
    /\ pc = "idle"

InitAlign ==
    /\ alignTimestamp \in AlignStamps
    /\ alignSegments \in SeqsUpTo(AlignSegmentPool, MaxAlignSegments)
    /\ alignLabel = << >>
    /\ alignPc = "call"
    /\ MergeIdle
    /\ StreamIdle
    /\ RecordIdle
    /\ LoaderIdle

Align ==
    /\ alignPc = "call"
    /\ alignLabel' = findOptimalSpeaker(alignTimestamp, alignSegments)
    /\ alignPc' = "returned"
    /\ UNCHANGED <<alignTimestamp, alignSegments>>
    /\ UNCHANGED mergeVars
    /\ UNCHANGED <<streamVars, recordVars, loaderVars>>

NextAlign == Align

SpecAlign == InitAlign /\ [][NextAlign]_vars

----------------------------------------------------------------------------
(* Streaming microphone component: bounds, constants and inputs *)

MaxFrames == 2

MaxSessions == 2

MaxUpdates == 1

MaxFaults == 1

MaxCaptureFrames == 3

MaxLiveFrames == 1

MaxLiveSessions == 1

MaxLiveUpdates == 3

\* const BUFFER_SEND_INTERVAL = 1000, in ticks of 200 ms
BUFFER_SEND_INTERVAL == 5

\* the limit given to throttle: 200 ms
ThrottleLimit == 1

\* the delay after which a 'complete' message clears isProcessing: 1000 ms
ProcessingResetDelay == 5

Marker == "[BLANK_AUDIO]"

\* texts the streamer callback hands to postMessage
UpdateOutputs == { <<"a">>, <<Marker, " ">> }

\* outputText[0] of the 'complete' message
CompleteOutputs == { <<" ", "b", Marker>> }

\* result.text of the pipeline run over the whole recording
PipelineTexts == { <<" ", "f", Marker>> }

----------------------------------------------------------------------------
(* MicButton.vue: functions of the component, as maps from the component's *)
(* state before a call to its state when the call returns or suspends      *)

filterText(text) ==
    IF text = << >> THEN << >>
    ELSE trim(SelectSeq(text, LAMBDA c : c # Marker))

\* text.replace(/\s+/g, ' ')
RECURSIVE collapseSpaces(_)
collapseSpaces(text) ==
    IF text = << >> THEN << >>
    ELSE IF Head(text) \in WhiteSpace
    THEN <<" ">> \o collapseSpaces(trimStart(text))
    ELSE <<Head(text)>> \o collapseSpaces(Tail(text))

cleanText(text) == trim(collapseSpaces(text))

\* the function given to throttle (throttledUpdate's body)
publishPartial(m, text) ==
    IF text = << >> THEN m
    ELSE [m EXCEPT !.partialResult = text,
                   !.modelValue = m.accumulatedText \o text]

\* func.apply followed by lastRan = Date.now()
runThrottled(m, text) ==
    [publishPartial(m, text) EXCEPT !.sinceLastRan = 0,
                                    !.sinkRuns = @ + 1,
                                    !.sinceSink = 0]

throttledUpdate_unthrottled(m, text) ==
    runThrottled(m, text)

\* a call of the function throttle returned: run at once the first time,
\* afterwards replace the pending timer
throttledUpdate(m, text) ==
    IF m.sinceLastRan < 0
    THEN runThrottled(m, text)
    ELSE [m EXCEPT !.lastFunc =
             <<[delay |-> Max(ThrottleLimit - m.sinceLastRan, 0),
                args |-> text,
                stale |-> FALSE]>>]

\* the callback of the timer throttle set
throttleTimeout(m) ==
    LET text == m.lastFunc[1].args
        m1 == [m EXCEPT !.lastFunc = << >>]
    IN  IF m1.sinceLastRan >= ThrottleLimit
        THEN runThrottled(m1, text)
        ELSE m1

cleanup(m) == [m EXCEPT !.partialResult = << >>]

emit(m, text, audio) ==
    [m EXCEPT !.emitted = Append(@, [text |-> text, audio |-> audio])]

\* stopRecording up to its first await, or to its end when it does not await
stopRecording(m) ==
    LET m1 == [m EXCEPT !.graphs = @ \ {m.scriptProcessor}]
        fullAudio == m1.completeAudioData
    IN  IF fullAudio = << >>
        THEN [m1 EXCEPT !.micActive = FALSE]
        ELSE IF m1.transcriber # "null"
        THEN [m1 EXCEPT !.isProcessing_normalpipeline = TRUE,
                        !.finalCalls = Append(@, fullAudio)]
        ELSE LET m2 == [m1 EXCEPT !.toWorker =
                           Append(@, [type |-> "finalize", audio |-> << >>])]
                 m3 == IF m2.accumulatedText # << >>
                       THEN emit([m2 EXCEPT !.modelValue =
                                     cleanText(m2.accumulatedText)],
                                 cleanText(m2.accumulatedText), fullAudio)
                       ELSE m2
             IN  [m3 EXCEPT !.micActive = FALSE]

showAlert(m, context) == [m EXCEPT !.alerts = Append(@, context)]

handleError(m, context) ==
    cleanup(stopRecording(showAlert(m, context)))

----------------------------------------------------------------------------
(* The component and its worker, from the worker's 'ready' on *)

(* Fields of mic.  Refs and variables of the component: micActive,          *)
(* isProcessing, isProcessing_normalpipeline, transcriber ("pipeline" once *)
(* loaded, "null" when loading it failed), partialResult, accumulatedText, *)
(* modelValue (model.value), audioBuffers, completeAudioData (sequences of *)
(* frame numbers), scriptProcessor (the capture graph the variables refer  *)
(* to, 0 before the first), lastFunc (the timer of throttle: << >> or one  *)
(* record with its remaining delay and its arguments).                     *)
(* Elapsed times: sinceLastSend = Date.now() - lastSendTime, sinceLastRan  *)
(* = Date.now() - lastRan of throttle.                                     *)
(* The platform around it: graphs (capture graphs still connected),        *)
(* acquiring (getUserMedia calls not yet settled), resetTimers (remaining  *)
(* delays of the timers that clear isProcessing), finalCalls (the          *)
(* fullAudio of each transcriber call not yet settled), toWorker (messages *)
(* posted to the worker, not yet received), alerts (contexts shown by the  *)
(* alert store), emitted (payloads of textAvailable).                      *)
(* What happened so far: frames (frames with a non-zero sample), sessions  *)
(* (calls of startRecording), faults (calls of the platform that threw),   *)
(* lastSilent (the last frame was all zero), dispatches (blocks handed to  *)
(* postMessage), sinceDispatch (time since the last of them),              *)
(* sentThisRecording (one of them since lastSendTime was reset), sinkRuns  *)
(* (runs of the throttled function), sinceSink (time since the last),      *)
(* stray (frames delivered by the capture graph of an earlier              *)
(* startRecording than the latest), stale of the timer record (a           *)
(* 'complete' message was handled while it was pending).                   *)
(* Fields of wk: processing, calls (the generate calls that are running,   *)
(* each with its audio and the number of streamer callbacks so far),       *)
(* recognised and skipped (frames of the calls that returned, and of the   *)
(* generate messages that found processing set), faults (generate calls    *)
(* that threw).                                                            *)

RemoveAt(s, i) == SubSeq(s, 1, i - 1) \o SubSeq(s, i + 1, Len(s))

\* elapsed times grow with the clock up to the value they are compared with;
\* -1 stands for a time that was never stored
Older(age, cap) == IF age < 0 THEN age ELSE Min(age + 1, cap)

InitStream ==
    /\ \E loaded \in BOOLEAN :
         mic = [ micActive |-> FALSE,
                 isProcessing |-> FALSE,
                 isProcessing_normalpipeline |-> FALSE,
                 transcriber |-> IF loaded THEN "pipeline" ELSE "null",
                 partialResult |-> << >>,
                 accumulatedText |-> << >>,
                 modelValue |-> << >>,
                 audioBuffers |-> << >>,
                 completeAudioData |-> << >>,
                 sinceLastSend |-> BUFFER_SEND_INTERVAL,
                 graphs |-> {},
                 scriptProcessor |-> 0,
                 acquiring |-> {},
                 lastFunc |-> << >>,
                 sinceLastRan |-> -1,
                 resetTimers |-> {},
                 finalCalls |-> << >>,
                 toWorker |-> << >>,
                 alerts |-> IF loaded THEN << >> ELSE <<"Model Load Failed">>,
                 emitted |-> << >>,
                 frames |-> 0,
                 stray |-> {},
                 lastSilent |-> FALSE,
                 sessions |-> 0,
                 faults |-> 0,
                 dispatches |-> 0,
                 sinceDispatch |-> -1,
                 sentThisRecording |-> FALSE,
                 sinkRuns |-> 0,
                 sinceSink |-> -1 ]
    /\ wk = [processing |-> FALSE, calls |-> << >>,
             recognised |-> {}, skipped |-> {}, faults |-> 0]
    /\ toMain = << >>
    /\ MergeIdle
    /\ AlignIdle
    /\ RecordIdle
    /\ LoaderIdle

StreamFrame == UNCHANGED <<mergeVars, alignVars, recordVars, loaderVars>>

\* micClick while the microphone is active
MicClickStop ==
    /\ mic.micActive
    /\ mic' = stopRecording([mic EXCEPT !.micActive = FALSE])
    /\ UNCHANGED <<wk, toMain>>
    /\ StreamFrame

\* micClick while it is not: startRecording runs up to await getUserMedia
MicClickStart(maxSessions) ==
    /\ ~mic.micActive
    /\ ~mic.isProcessing
    /\ mic.sessions < maxSessions
    /\ mic' = [mic EXCEPT !.micActive = TRUE,
                          !.accumulatedText = << >>,
                          !.modelValue = << >>,
                          !.completeAudioData = << >>,
                          !.sessions = @ + 1,
                          !.acquiring = @ \cup {mic.sessions + 1}]
    /\ UNCHANGED <<wk, toMain>>
    /\ StreamFrame

\* getUserMedia resolves: the rest of startRecording
GetUserMediaResolve ==
    /\ \E s \in mic.acquiring :
         mic' = [mic EXCEPT !.acquiring = @ \ {s},
                            !.graphs = @ \cup {s},
                            !.scriptProcessor = s,
                            !.audioBuffers = << >>,
                            !.sinceLastSend = BUFFER_SEND_INTERVAL,
                            !.sentThisRecording = FALSE]
    /\ UNCHANGED <<wk, toMain>>
    /\ StreamFrame

\* getUserMedia rejects: the catch of startRecording
GetUserMediaReject ==
    /\ mic.faults < MaxFaults
    /\ \E s \in mic.acquiring :
         mic' = handleError([mic EXCEPT !.acquiring = @ \ {s},
                                        !.faults = @ + 1],
                            "Microphone access failed")
    /\ UNCHANGED <<wk, toMain>>
    /\ StreamFrame

postGenerate(m, block) ==
    [m EXCEPT !.toWorker = Append(@, [type |-> "generate", audio |-> block])]

mayDispatch_early(m) ==
    m.sinceLastSend >= BUFFER_SEND_INTERVAL - 1 /\ m.audioBuffers # << >>

\* now - lastSendTime >= BUFFER_SEND_INTERVAL && audioBuffers.length > 0
mayDispatch(m) ==
    m.sinceLastSend >= BUFFER_SEND_INTERVAL /\ m.audioBuffers # << >>

\* onaudioprocess for a frame with a non-zero sample; throws: postMessage
\* throws
captureFrame(m, frame, throws) ==
    LET m1 == [m EXCEPT !.audioBuffers = Append(@, frame),
                        !.completeAudioData = Append(@, frame)]
    IN  IF mayDispatch(m1)
        THEN LET m2 == [m1 EXCEPT !.sinceLastSend = 0,
                                  !.audioBuffers = << >>,
                                  !.dispatches = @ + 1,
                                  !.sinceDispatch = 0,
                                  !.sentThisRecording = TRUE]
             IN  IF throws
                 THEN handleError(m2, "Audio sending failed")
                 ELSE postGenerate(m2, m1.audioBuffers)
        ELSE m1

onaudioprocess_storeSilent(m, frame, isSilent, throws) ==
    IF isSilent
    THEN [m EXCEPT !.completeAudioData = Append(@, frame)]
    ELSE captureFrame(m, frame, throws)

\* scriptProcessor.onaudioprocess for one frame
onaudioprocess(m, frame, isSilent, throws) ==
    IF isSilent THEN m ELSE captureFrame(m, frame, throws)

\* a frame arrives from a connected capture graph; frames with a non-zero
\* sample are numbered in the order of their arrival
OnAudioProcess(maxFrames) ==
    /\ mic.graphs # {}
    /\ \E g \in mic.graphs, isSilent \in BOOLEAN, throws \in BOOLEAN :
         LET frame == mic.frames + 1
             m0 == [mic EXCEPT !.frames = IF isSilent THEN @ ELSE frame,
                               !.stray = IF ~isSilent /\ g < mic.sessions
                                         THEN @ \cup {frame} ELSE @,
                               !.lastSilent = isSilent,
                               !.faults = IF throws THEN @ + 1 ELSE @]
         IN  /\ ~isSilent => mic.frames < maxFrames
             /\ throws => /\ ~isSilent
                          /\ mic.faults < MaxFaults
                          /\ mayDispatch([mic EXCEPT !.audioBuffers =
                                                 Append(@, frame)])
             /\ mic' = onaudioprocess(m0, frame, isSilent, throws)
    /\ UNCHANGED <<wk, toMain>>
    /\ StreamFrame

\* worker.onmessage, case 'start'
OnStart ==
    /\ toMain # << >>
    /\ Head(toMain).status = "start"
    /\ mic' = [mic EXCEPT !.isProcessing = TRUE]
    /\ toMain' = Tail(toMain)
    /\ UNCHANGED wk
    /\ StreamFrame

onUpdate(m, output) ==
    LET m1 == [m EXCEPT !.isProcessing = TRUE]
    IN  IF output # << >> /\ filterText(output) # << >>
        THEN throttledUpdate(m1, filterText(output))
        ELSE m1

\* worker.onmessage, case 'update'
OnUpdate ==
    /\ toMain # << >>
    /\ Head(toMain).status = "update"
    /\ mic' = onUpdate(mic, Head(toMain).output)
    /\ toMain' = Tail(toMain)
    /\ UNCHANGED wk
    /\ StreamFrame

onComplete(m, output) ==
    LET filteredPartial == filterText(m.partialResult)
        acc == IF filteredPartial # << >>
               THEN m.accumulatedText \o filteredPartial \o <<" ">>
               ELSE m.accumulatedText
    IN  [m EXCEPT !.accumulatedText = acc,
                  !.partialResult = << >>,
                  !.modelValue = cleanText(acc),
                  !.resetTimers = @ \cup {ProcessingResetDelay},
                  !.lastFunc = IF @ = << >> THEN @
                               ELSE <<[@[1] EXCEPT !.stale = TRUE]>>]

\* worker.onmessage, case 'complete'
OnComplete ==
    /\ toMain # << >>
    /\ Head(toMain).status = "complete"
    /\ mic' = onComplete(mic, Head(toMain).output)
    /\ toMain' = Tail(toMain)
    /\ UNCHANGED wk
    /\ StreamFrame

\* the timer set by throttle fires
ThrottleTimeout ==
    /\ mic.lastFunc # << >>
    /\ mic.lastFunc[1].delay = 0
    /\ mic' = throttleTimeout(mic)
    /\ UNCHANGED <<wk, toMain>>
    /\ StreamFrame

\* the timer set by a 'complete' message fires
ProcessingTimeout ==
    /\ 0 \in mic.resetTimers
    /\ mic' = [mic EXCEPT !.isProcessing = FALSE,
                          !.resetTimers = @ \ {0}]
    /\ UNCHANGED <<wk, toMain>>
    /\ StreamFrame

pipelineResolved(m, i, text) ==
    LET finalText == filterText(text)
        m1 == [m EXCEPT !.finalCalls = RemoveAt(@, i),
                        !.modelValue = finalText]
    IN  [emit(m1, finalText, m.finalCalls[i])
            EXCEPT !.isProcessing_normalpipeline = FALSE,
                   !.micActive = FALSE]

\* await transcriber(fullAudio) returns: the rest of stopRecording
PipelineResolve ==
    /\ \E i \in DOMAIN mic.finalCalls, text \in PipelineTexts :
         mic' = pipelineResolved(mic, i, text)
    /\ UNCHANGED <<wk, toMain>>
    /\ StreamFrame

pipelineRejected(m, i) ==
    [handleError([m EXCEPT !.finalCalls = RemoveAt(@, i)],
                 "Complete audio processing failed")
        EXCEPT !.micActive = FALSE]

\* await transcriber(fullAudio) throws: the catch inside stopRecording
PipelineReject ==
    /\ mic.faults < MaxFaults
    /\ \E i \in DOMAIN mic.finalCalls :
         mic' = pipelineRejected([mic EXCEPT !.faults = @ + 1], i)
    /\ UNCHANGED <<wk, toMain>>
    /\ StreamFrame

\* 200 ms pass.  A posted message, a due timer and a getUserMedia call are
\* handled within the tick in which they became ready; how long a generate
\* call or the pipeline take is not limited.
Tick ==
    /\ mic' = [mic EXCEPT
                 !.sinceLastSend = Older(@, BUFFER_SEND_INTERVAL),
                 !.sinceDispatch = Older(@, BUFFER_SEND_INTERVAL),
                 !.sinceLastRan = Older(@, ThrottleLimit),
                 !.sinceSink = Older(@, ThrottleLimit),
                 !.lastFunc = IF @ = << >> THEN @
                              ELSE <<[@[1] EXCEPT !.delay = Max(@ - 1, 0)]>>,
                 !.resetTimers = {Max(d - 1, 0) : d \in @}]
    /\ mic' # mic
    /\ toMain = << >>
    /\ mic.toWorker = << >>
    /\ mic.acquiring = {}
    /\ 0 \notin mic.resetTimers
    /\ IF mic.lastFunc = << >> THEN TRUE ELSE mic.lastFunc[1].delay > 0
    /\ UNCHANGED <<wk, toMain>>
    /\ StreamFrame

----------------------------------------------------------------------------
(* part_003: the worker *)

post(queue, status, output, call) ==
    Append(queue, [status |-> status, output |-> output, call |-> call])

Frames(block) == {block[i] : i \in DOMAIN block}

\* the message listener, case 'generate': generate up to its first await
WorkerGenerate ==
    /\ mic.toWorker # << >>
    /\ Head(mic.toWorker).type = "generate"
    /\ mic' = [mic EXCEPT !.toWorker = Tail(@)]
    /\ LET audio == Head(mic.toWorker).audio
       IN  IF wk.processing
           THEN /\ wk' = [wk EXCEPT !.skipped = @ \cup Frames(audio)]
                /\ UNCHANGED toMain
           ELSE /\ wk' = [wk EXCEPT !.processing = TRUE,
                                    !.calls = Append(@, [audio |-> audio,
                                                         updates |-> 0])]
                /\ toMain' = post(toMain, "start", << >>, audio)
    /\ StreamFrame

\* the message listener, case 'finalize'
WorkerFinalize ==
    /\ mic.toWorker # << >>
    /\ Head(mic.toWorker).type = "finalize"
    /\ mic' = [mic EXCEPT !.toWorker = Tail(@)]
    /\ wk' = [wk EXCEPT !.processing = FALSE]
    /\ UNCHANGED toMain
    /\ StreamFrame

\* callback_function of the streamer of a running generate
StreamerCallback(maxUpdates) ==
    /\ \E i \in DOMAIN wk.calls, output \in UpdateOutputs :
         /\ wk.calls[i].updates < maxUpdates
         /\ wk' = [wk EXCEPT !.calls[i].updates = @ + 1]
         /\ toMain' = post(toMain, "update", output, wk.calls[i].audio)
    /\ UNCHANGED mic
    /\ StreamFrame

\* model.generate of a running generate returns: the rest of generate
GenerateReturn ==
    /\ \E i \in DOMAIN wk.calls, output \in CompleteOutputs :
         /\ wk' = [wk EXCEPT !.calls = RemoveAt(@, i),
                             !.processing = FALSE,
                             !.recognised = @ \cup Frames(wk.calls[i].audio)]
         /\ toMain' = post(toMain, "complete", output, wk.calls[i].audio)
    /\ UNCHANGED mic
    /\ StreamFrame

\* an await inside a running generate rejects (processor(audio) or
\* model.generate): generate has no try, so the call ends there, before the
\* 'complete' message and before processing = false; nothing is posted, and
\* the rejection of the listener's promise is not an error event
GenerateThrow ==
    /\ wk.faults < MaxFaults
    /\ \E i \in DOMAIN wk.calls :
         wk' = [wk EXCEPT !.calls = RemoveAt(@, i),
                          !.faults = @ + 1]
    /\ UNCHANGED <<mic, toMain>>
    /\ StreamFrame

NextStream ==
    \/ MicClickStop
    \/ MicClickStart(MaxSessions)
    \/ GetUserMediaResolve
    \/ GetUserMediaReject
    \/ OnAudioProcess(MaxFrames)
    \/ OnStart
    \/ OnUpdate
    \/ OnComplete
    \/ ThrottleTimeout
    \/ ProcessingTimeout
    \/ PipelineResolve
    \/ PipelineReject
    \/ Tick
    \/ WorkerGenerate
    \/ WorkerFinalize
    \/ StreamerCallback(MaxUpdates)
    \/ GenerateReturn
    \/ GenerateThrow

SpecStream == InitStream /\ [][NextStream]_vars

\* the capture path while neither the recognizer nor the pipeline returns
NextCapture ==
    \/ MicClickStop
    \/ MicClickStart(MaxSessions)
    \/ GetUserMediaResolve
    \/ GetUserMediaReject
    \/ OnAudioProcess(MaxCaptureFrames)
    \/ OnStart
    \/ Tick
    \/ WorkerGenerate
    \/ WorkerFinalize

SpecCapture == InitStream /\ [][NextCapture]_vars

\* the live transcript while the pipeline does not return
NextLive ==
    \/ MicClickStop
    \/ MicClickStart(MaxLiveSessions)
    \/ GetUserMediaResolve
    \/ OnAudioProcess(MaxLiveFrames)
    \/ OnStart
    \/ OnUpdate
    \/ OnComplete
    \/ ThrottleTimeout
    \/ ProcessingTimeout
    \/ Tick
    \/ WorkerGenerate
    \/ WorkerFinalize
    \/ StreamerCallback(MaxLiveUpdates)
    \/ GenerateReturn

SpecLive == InitStream /\ [][NextLive]_vars

----------------------------------------------------------------------------
(* The record-then-process component (TextToSpeechRepository.js, the       *)
(* script of lines 43-401), from the moment onMounted has finished.        *)
(* Fields of rec: micActive, isProcessing, modelValue (model.value),       *)
(* transcriber and segmentation (whether onMounted loaded them; the        *)
(* segmentation processor and model are loaded after the transcriber),     *)
(* audioStream and mediaRecorder (0 for null, else the number of the       *)
(* recording that made them), audioChunks (each blob named by the recorder *)
(* that delivered it).                                                     *)
(* The platform around it: acquiring (getUserMedia calls not yet settled), *)
(* liveStreams (streams whose tracks are not stopped), recording           *)
(* (recorders in state "recording"), stopping (recorders stopped whose     *)
(* stop event is still to fire), jobs (one record per run of the onstop    *)
(* handler: the blob it built, state and value of the transcriber call t   *)
(* and of processDiarization d, whether processDiarization caught an       *)
(* error, and where the handler is), alerts, emitted (payloads of          *)
(* textAvailable).  What happened so far: sessions, faults.                *)

MaxRecSessions == 2

RecTranscriptions ==
    { <<Chunk(0, 20, Chars_hello)>>,
      <<Chunk(0, 20, Chars_hello), Chunk(60, 80, Chars_how_are_you)>> }

RecDiarizations ==
    { << >>,
      <<RawSegment(<<"A">>, 0, 40, 90, << >>),
        RawSegment(<<"B">>, 60, 100, 90, << >>)>> }

\* transcription.chunks.reduce of mergeResults
RECURSIVE reduceChunks(_, _, _)
reduceChunks(acc, chunks, segments) ==
    IF chunks = << >> THEN acc
    ELSE reduceChunks(mergeSegments(acc, Head(chunks),
                          findOptimalSpeaker(Head(chunks).timestamp, segments)),
                      Tail(chunks), segments)

mergeResults(chunks, diar) ==
    LET segs == reduceChunks(<< >>, chunks, preprocessDiarization(diar))
    IN  [formattedText |-> generateReadableText(segs),
         segments |-> segs,
         rawData |-> [diarization |-> diar, transcription |-> chunks]]

recCleanup(r) ==
    [r EXCEPT !.liveStreams = @ \ {r.audioStream},
              !.audioStream = 0,
              !.mediaRecorder = 0,
              !.audioChunks = << >>,
              !.micActive = FALSE]

recStopRecording(r) ==
    IF r.mediaRecorder \in r.recording
    THEN [r EXCEPT !.recording = @ \ {r.mediaRecorder},
                   !.stopping = @ \cup {r.mediaRecorder}]
    ELSE r

recShowAlert(r, title) == [r EXCEPT !.alerts = Append(@, title)]

\* the finally of the onstop handler
recFinally(r) == [recCleanup(r) EXCEPT !.isProcessing = FALSE]

promiseAll_any(t, d) ==
    IF t = "rejected" THEN "rejected"
    ELSE IF t = "fulfilled" \/ d = "fulfilled" THEN "fulfilled"
    ELSE "pending"

\* Promise.all of the transcriber call and processDiarization, which never
\* rejects
promiseAll(t, d) ==
    IF t = "rejected" THEN "rejected"
    ELSE IF t = "fulfilled" /\ d = "fulfilled" THEN "fulfilled"
    ELSE "pending"

\* the onstop handler of job i after its await, once Promise.all has settled
resumeOnStop(r, i) ==
    LET job == r.jobs[i]
        settled == promiseAll(job.t, job.d)
    IN  IF job.handler # "awaiting" \/ settled = "pending" THEN r
        ELSE IF settled = "fulfilled"
        THEN LET mergedResults == mergeResults(job.tValue, job.dValue)
             IN  recFinally([r EXCEPT
                     !.jobs[i].handler = "merged",
                     !.modelValue = mergedResults.formattedText,
                     !.emitted = Append(@, mergedResults)])
        ELSE recFinally(recShowAlert(
                 [r EXCEPT !.jobs[i].handler = "failed"], "Processing Failed"))

InitRecord ==
    /\ \E loadedTranscriber \in BOOLEAN, loadedSegmentation \in BOOLEAN :
         /\ loadedSegmentation => loadedTranscriber
         /\ rec = [micActive |-> FALSE,
                   isProcessing |-> FALSE,
                   modelValue |-> << >>,
                   transcriber |-> loadedTranscriber,
                   segmentation |-> loadedSegmentation,
                   audioStream |-> 0,
                   mediaRecorder |-> 0,
                   audioChunks |-> << >>,
                   acquiring |-> {},
                   liveStreams |-> {},
                   recording |-> {},
                   stopping |-> {},
                   jobs |-> << >>,
                   alerts |-> IF loadedSegmentation THEN << >>
                              ELSE <<"Model load failed">>,
                   emitted |-> << >>,
                   sessions |-> 0,
                   faults |-> 0]
    /\ MergeIdle
    /\ AlignIdle
    /\ StreamIdle
    /\ LoaderIdle

RecordFrame == UNCHANGED <<mergeVars, alignVars, streamVars, loaderVars>>

\* micClick while the microphone is not active: startRecording runs up to
\* await getUserMedia
RecMicClickStart ==
    /\ ~rec.micActive
    /\ rec.sessions < MaxRecSessions
    /\ rec' = [rec EXCEPT !.micActive = TRUE,
                          !.sessions = @ + 1,
                          !.acquiring = @ \cup {rec.sessions + 1}]
    /\ RecordFrame

\* micClick while it is active
RecMicClickStop ==
    /\ rec.micActive
    /\ rec' = recStopRecording([rec EXCEPT !.micActive = FALSE])
    /\ RecordFrame

\* getUserMedia resolves: the rest of startRecording
RecGetUserMediaResolve ==
    /\ \E s \in rec.acquiring :
         rec' = [rec EXCEPT !.acquiring = @ \ {s},
                            !.audioStream = s,
                            !.liveStreams = @ \cup {s},
                            !.mediaRecorder = s,
                            !.audioChunks = << >>,
                            !.recording = @ \cup {s}]
    /\ RecordFrame

\* getUserMedia rejects: the catch of startRecording
RecGetUserMediaReject ==
    /\ rec.faults < MaxFaults
    /\ \E s \in rec.acquiring :
         rec' = recCleanup(recShowAlert(
                    [rec EXCEPT !.acquiring = @ \ {s}, !.faults = @ + 1],
                    "Microphone Access Denied"))
    /\ RecordFrame

\* the tracks of the stream of a recorder that is still recording have been
\* stopped: the platform may stop the recorder on its own
RecTracksEnded ==
    /\ \E s \in rec.recording :
         /\ s \notin rec.liveStreams
         /\ rec' = [rec EXCEPT !.recording = @ \ {s},
                               !.stopping = @ \cup {s}]
    /\ RecordFrame

\* a stopped recorder delivers its data (ondataavailable) and fires stop:
\* the onstop handler up to its await
RecOnStop ==
    /\ \E s \in rec.stopping, hasData \in BOOLEAN :
         LET r1 == [rec EXCEPT !.stopping = @ \ {s},
                               !.audioChunks = IF hasData THEN Append(@, s)
                                               ELSE @,
                               !.isProcessing = TRUE]
             job == [session |-> s,
                     blob |-> r1.audioChunks,
                     t |-> IF rec.transcriber THEN "running" ELSE "none",
                     tValue |-> << >>,
                     d |-> IF ~rec.transcriber THEN "none"
                           ELSE IF rec.segmentation THEN "running"
                           ELSE "fulfilled",
                     dValue |-> << >>,
                     dCaught |-> rec.transcriber /\ ~rec.segmentation,
                     handler |-> IF rec.transcriber THEN "awaiting"
                                 ELSE "failed"]
             r2 == [r1 EXCEPT !.jobs = Append(@, job)]
         IN  rec' = IF rec.transcriber THEN r2
                    ELSE recFinally(recShowAlert(r2, "Processing Failed"))
    /\ RecordFrame

\* the transcriber call of a job resolves
RecTranscriberResolve ==
    /\ \E i \in DOMAIN rec.jobs, chunks \in RecTranscriptions :
         /\ rec.jobs[i].t = "running"
         /\ rec' = resumeOnStop([rec EXCEPT !.jobs[i].t = "fulfilled",
                                            !.jobs[i].tValue = chunks], i)
    /\ RecordFrame

\* the transcriber call of a job rejects
RecTranscriberReject ==
    /\ rec.faults < MaxFaults
    /\ \E i \in DOMAIN rec.jobs :
         /\ rec.jobs[i].t = "running"
         /\ rec' = resumeOnStop([rec EXCEPT !.jobs[i].t = "rejected",
                                            !.faults = @ + 1], i)
    /\ RecordFrame

\* processDiarization of a job returns the segments
RecDiarizationReturn ==
    /\ \E i \in DOMAIN rec.jobs, diar \in RecDiarizations :
         /\ rec.jobs[i].d = "running"
         /\ rec' = resumeOnStop([rec EXCEPT !.jobs[i].d = "fulfilled",
                                            !.jobs[i].dValue = diar], i)
    /\ RecordFrame

\* an await inside processDiarization throws: its catch returns []
RecDiarizationCatch ==
    /\ rec.faults < MaxFaults
    /\ \E i \in DOMAIN rec.jobs :
         /\ rec.jobs[i].d = "running"
         /\ rec' = resumeOnStop([rec EXCEPT !.jobs[i].d = "fulfilled",
                                            !.jobs[i].dValue = << >>,
                                            !.jobs[i].dCaught = TRUE,
                                            !.faults = @ + 1], i)
    /\ RecordFrame

NextRecord ==
    \/ RecMicClickStart
    \/ RecMicClickStop
    \/ RecGetUserMediaResolve
    \/ RecGetUserMediaReject
    \/ RecTracksEnded
    \/ RecOnStop
    \/ RecTranscriberResolve
    \/ RecTranscriberReject
    \/ RecDiarizationReturn
    \/ RecDiarizationCatch

SpecRecord == InitRecord /\ [][NextRecord]_vars

----------------------------------------------------------------------------
(* The model loaders.                                                      *)
(* ld.asr is AutomaticSpeechRecognitionPipeline of the worker              *)
(* (src/unnamed/part_003:48-85): promise holds the static fields           *)
(* tokenizer, processor and model (state "null" before the first           *)
(* assignment, else the state of the promise; id is the number of the      *)
(* from_pretrained call that made it), started counts the from_pretrained  *)
(* calls per field, callers holds, for each call of getInstance (by load   *)
(* or by generate), the ids of the three promises it was given.            *)
(* ld.llm is WebLLMImplementation (src/src/stores/MessageStore.js:459-541):*)
(* engine (0 for null, else the number of the setup that made it),         *)
(* engineLoading, setups and failedSetups (calls of setup started, and     *)
(* failed), calls (one record per call of getResponse: its arguments       *)
(* wordLoading and sentenceLoading, where it is, the retryCount of the     *)
(* create call it is in, the number of create calls made for it, the       *)
(* engine it used), newWordsLoading and newSentenceLoading (the counters   *)
(* of the loading store, src/src/stores/LoadingStore.js:4-14), alerts,     *)
(* faults.                                                                 *)

MaxCallers == 2

MaxLoadFaults == 4

RetryCount == 3

Components == {"tokenizer", "processor", "model"}

\* <<wordLoading, sentenceLoading>> as the store's functions pass them
LoadingFlags == { <<TRUE, FALSE>>, <<FALSE, TRUE>> }

nullishAssign_always(current, fresh) == fresh

\* field ??= fresh
nullishAssign(current, fresh) ==
    IF current.state = "null" THEN fresh ELSE current

\* getInstance: the three ??= assignments; the caller is handed the promises
getInstance(a) ==
    LET assigned == [c \in Components |->
                        nullishAssign(a.promise[c],
                                      [state |-> "pending",
                                       id |-> a.started[c] + 1])]
        called == {c \in Components : assigned[c] # a.promise[c]}
    IN  [a EXCEPT !.promise = assigned,
                  !.started = [c \in Components |->
                                  IF c \in called THEN @[c] + 1 ELSE @[c]],
                  !.callers = Append(@, [c \in Components |-> assigned[c].id])]

\* while (this.engineLoading)
mustWait(l) == l.engineLoading

\* create from its first line, or from the while after a sleep: up to the
\* next await
enterCreate(l, i) ==
    IF mustWait(l) THEN [l EXCEPT !.calls[i].at = "sleep"]
    ELSE IF l.engine = 0
    THEN [l EXCEPT !.engineLoading = TRUE,
                   !.setups = @ + 1,
                   !.calls[i].at = "setup"]
    ELSE [l EXCEPT !.calls[i].at = "completion",
                   !.calls[i].engine = l.engine]

catchCreate_lessRetries(l, i) ==
    IF l.calls[i].retryCount > 1
    THEN [l EXCEPT !.calls[i].at = "backoff"]
    ELSE [l EXCEPT !.calls[i].at = "threw"]

\* the catch of create
catchCreate(l, i) ==
    IF l.calls[i].retryCount > 0
    THEN [l EXCEPT !.calls[i].at = "backoff"]
    ELSE [l EXCEPT !.calls[i].at = "threw"]

\* if (flag) counter-- of getResponse's finally
countDown(flag, counter) == IF flag THEN counter - 1 ELSE counter

afterCreate_returnOnly(l, i) ==
    IF l.calls[i].at = "returned"
    THEN [l EXCEPT !.newWordsLoading = countDown(l.calls[i].wordLoading, @),
                   !.newSentenceLoading =
                       countDown(l.calls[i].sentenceLoading, @)]
    ELSE IF l.calls[i].at = "threw"
    THEN [l EXCEPT !.alerts = Append(@, "failed to generate response")]
    ELSE l

\* getResponse after await this.create(messages): nothing while create is
\* still at an await; the catch when it threw; the finally in both cases
afterCreate(l, i) ==
    LET l1 == IF l.calls[i].at = "threw"
              THEN [l EXCEPT !.alerts = Append(@, "failed to generate response")]
              ELSE l
    IN  IF l.calls[i].at \in {"returned", "threw"}
        THEN [l1 EXCEPT !.newWordsLoading =
                            countDown(l.calls[i].wordLoading, @),
                        !.newSentenceLoading =
                            countDown(l.calls[i].sentenceLoading, @)]
        ELSE l1

InitLoad ==
    /\ ld = [asr |-> [promise |-> [c \in Components |->
                                       [state |-> "null", id |-> 0]],
                      started |-> [c \in Components |-> 0],
                      callers |-> << >>,
                      faults |-> 0],
             llm |-> [engine |-> 0,
                      engineLoading |-> FALSE,
                      setups |-> 0,
                      failedSetups |-> 0,
                      calls |-> << >>,
                      newWordsLoading |-> 0,
                      newSentenceLoading |-> 0,
                      alerts |-> << >>,
                      faults |-> 0]]
    /\ MergeIdle
    /\ AlignIdle
    /\ StreamIdle
    /\ RecordIdle

LoadFrame == UNCHANGED <<mergeVars, alignVars, streamVars, recordVars>>

\* load or generate of the worker calls getInstance
AsrGetInstance ==
    /\ Len(ld.asr.callers) < MaxCallers
    /\ ld' = [ld EXCEPT !.asr = getInstance(@)]
    /\ LoadFrame

\* a from_pretrained promise resolves
AsrPretrainedResolve ==
    /\ \E c \in Components :
         /\ ld.asr.promise[c].state = "pending"
         /\ ld' = [ld EXCEPT !.asr.promise[c].state = "resolved"]
    /\ LoadFrame

\* a from_pretrained promise rejects
AsrPretrainedReject ==
    /\ ld.asr.faults < MaxFaults
    /\ \E c \in Components :
         /\ ld.asr.promise[c].state = "pending"
         /\ ld' = [ld EXCEPT !.asr.promise[c].state = "rejected",
                             !.asr.faults = @ + 1]
    /\ LoadFrame

\* getResponse is called: the dependency check, the counters, and
\* create(messages) up to its first await
LlmCreate ==
    /\ Len(ld.llm.calls) < MaxCallers
    /\ \E dependencies \in BOOLEAN, flags \in LoadingFlags :
         LET wordLoading == flags[1]
             sentenceLoading == flags[2]
             i == Len(ld.llm.calls) + 1
             call == [wordLoading |-> wordLoading,
                      sentenceLoading |-> sentenceLoading,
                      at |-> IF dependencies THEN "entry" ELSE "refused",
                      retryCount |-> RetryCount,
                      attempts |-> IF dependencies THEN 1 ELSE 0,
                      engine |-> 0]
             l == [ld.llm EXCEPT !.calls = Append(@, call)]
             counted == [l EXCEPT
                           !.newWordsLoading =
                               IF wordLoading THEN @ + 1 ELSE @,
                           !.newSentenceLoading =
                               IF sentenceLoading THEN @ + 1 ELSE @]
         IN  ld' = [ld EXCEPT !.llm = IF dependencies
                                      THEN enterCreate(counted, i)
                                      ELSE l]
    /\ LoadFrame

\* sleep(100) of the while is over
LlmWake ==
    /\ \E i \in DOMAIN ld.llm.calls :
         /\ ld.llm.calls[i].at = "sleep"
         /\ ld' = [ld EXCEPT !.llm = enterCreate(@, i)]
    /\ LoadFrame

\* await this.setup() returns: CreateMLCEngine resolved
LlmSetupResolve ==
    /\ \E i \in DOMAIN ld.llm.calls :
         /\ ld.llm.calls[i].at = "setup"
         /\ ld' = [ld EXCEPT !.llm.engine = ld.llm.setups,
                             !.llm.engineLoading = FALSE,
                             !.llm.calls[i].at = "completion",
                             !.llm.calls[i].engine = ld.llm.setups]
    /\ LoadFrame

\* await this.setup() throws: CreateMLCEngine rejected
LlmSetupReject(maxFaults) ==
    /\ ld.llm.faults < maxFaults
    /\ \E i \in DOMAIN ld.llm.calls :
         /\ ld.llm.calls[i].at = "setup"
         /\ ld' = [ld EXCEPT !.llm =
                      afterCreate(
                          catchCreate([@ EXCEPT !.engineLoading = FALSE,
                                                !.failedSetups = @ + 1,
                                                !.faults = @ + 1], i), i)]
    /\ LoadFrame

\* the completion arrives and parses
LlmCompletionReturn ==
    /\ \E i \in DOMAIN ld.llm.calls :
         /\ ld.llm.calls[i].at = "completion"
         /\ ld' = [ld EXCEPT !.llm =
                      afterCreate([@ EXCEPT !.calls[i].at = "returned"], i)]
    /\ LoadFrame

\* the completion call rejects, or JSON.parse throws
LlmCompletionThrow(maxFaults) ==
    /\ ld.llm.faults < maxFaults
    /\ \E i \in DOMAIN ld.llm.calls :
         /\ ld.llm.calls[i].at = "completion"
         /\ ld' = [ld EXCEPT !.llm =
                      afterCreate(
                          catchCreate([@ EXCEPT !.faults = @ + 1], i), i)]
    /\ LoadFrame

\* sleep(1000) of the catch is over: create(messages, retryCount - 1)
LlmRetry ==
    /\ \E i \in DOMAIN ld.llm.calls :
         /\ ld.llm.calls[i].at = "backoff"
         /\ ld' = [ld EXCEPT !.llm =
                      enterCreate([@ EXCEPT !.calls[i].retryCount = @ - 1,
                                            !.calls[i].attempts = @ + 1], i)]
    /\ LoadFrame

NextLoad ==
    \/ AsrGetInstance
    \/ AsrPretrainedResolve
    \/ AsrPretrainedReject
    \/ LlmCreate
    \/ LlmWake
    \/ LlmSetupResolve
    \/ LlmSetupReject(MaxFaults)
    \/ LlmCompletionReturn
    \/ LlmCompletionThrow(MaxFaults)
    \/ LlmRetry

SpecLoad == InitLoad /\ [][NextLoad]_vars

\* the calls of getResponse alone, with enough failures for create to use
\* up its retries
NextRespond ==
    \/ LlmCreate
    \/ LlmWake
    \/ LlmSetupResolve
    \/ LlmSetupReject(MaxLoadFaults)
    \/ LlmCompletionReturn
    \/ LlmCompletionThrow(MaxLoadFaults)
    \/ LlmRetry

SpecRespond == InitLoad /\ [][NextRespond]_vars

----------------------------------------------------------------------------
(* Alignment rules, stated on the arguments and the result of the call *)

AlignStart == alignTimestamp[1]

AlignEnd == alignTimestamp[2]

AlignReturned == alignPc = "returned"

Indices == DOMAIN alignSegments

ContainingIdx ==
    {i \in Indices : alignSegments[i].start <= AlignStart
                     /\ alignSegments[i].end >= AlignEnd}

OverlapOf(i) ==
    LET lo == IF alignSegments[i].start > AlignStart
              THEN alignSegments[i].start ELSE AlignStart
        hi == IF alignSegments[i].end < AlignEnd
              THEN alignSegments[i].end ELSE AlignEnd
    IN  IF hi > lo THEN hi - lo ELSE 0

\* overlap / duration >= 0.35 = 7/20, for a chunk of positive duration
KeptIdx ==
    {i \in Indices : AlignEnd > AlignStart
                     /\ 20 * OverlapOf(i) >= 7 * (AlignEnd - AlignStart)}

TopConfidence(I) ==
    {i \in I : \A j \in I : alignSegments[j].confidence <= alignSegments[i].confidence}

\* twice |segment midpoint - chunk midpoint|
MidGap(i) ==
    LET d == (alignSegments[i].start + alignSegments[i].end) - (AlignStart + AlignEnd)
    IN  IF d < 0 THEN 0 - d ELSE d

NearestIdx == {i \in Indices : \A j \in Indices : MidGap(i) <= MidGap(j)}

LabelAmong(I) == \E i \in I : alignLabel = alignSegments[i].label

MidpointRule ==
    IF Indices = {} THEN alignLabel = GenericSpeaker ELSE LabelAmong(NearestIdx)

\* C1: findOptimalSpeaker returns, for every chunk with start <= end and every
\* list of filtered segments, one non-empty label that is the label of one of
\* the given segments or the generic tag 'Speaker'.
C1_Total ==
    AlignReturned =>
        /\ alignLabel # << >>
        /\ alignLabel = GenericSpeaker \/ LabelAmong(Indices)

\* a zero-length chunk that no segment contains (its overlap ratio is 0/0)
\* still got the label of one of two segments
C1_Witness ==
    /\ AlignReturned
    /\ AlignStart = AlignEnd
    /\ Len(alignSegments) = 2
    /\ ContainingIdx = {}
    /\ LabelAmong(Indices)

\* C2: containment rule: exactly one containing segment gives its label;
\* several give the label of one with the highest confidence.
C2_Containment ==
    AlignReturned =>
        /\ Cardinality(ContainingIdx) = 1 => LabelAmong(ContainingIdx)
        /\ Cardinality(ContainingIdx) > 1 => LabelAmong(TopConfidence(ContainingIdx))

\* two containing segments, 0.9 listed before 0.95, differently labelled: the
\* 0.95 one won
C2_Witness ==
    /\ AlignReturned
    /\ ContainingIdx = {1, 2}
    /\ alignSegments[1].confidence = 90
    /\ alignSegments[2].confidence = 95
    /\ alignSegments[1].label # alignSegments[2].label
    /\ alignLabel = alignSegments[2].label

\* C3: overlap rule: with no containing segment, the segments with overlap
\* ratio >= 0.35 (0.35 itself included) are kept and the highest-confidence
\* kept one gives the label; with none kept the midpoint rule decides.
C3_Overlap ==
    (AlignReturned /\ ContainingIdx = {}) =>
        /\ KeptIdx # {} => LabelAmong(TopConfidence(KeptIdx))
        /\ KeptIdx = {} => MidpointRule

\* a segment overlapping exactly 0.35 of the chunk won against a differently
\* labelled segment that overlaps less and whose midpoint is nearer
C3_Witness ==
    /\ AlignReturned
    /\ ContainingIdx = {}
    /\ \E i \in KeptIdx :
           /\ 20 * OverlapOf(i) = 7 * (AlignEnd - AlignStart)
           /\ alignLabel = alignSegments[i].label
           /\ \E j \in Indices \ KeptIdx :
                  /\ OverlapOf(j) > 0
                  /\ MidGap(j) < MidGap(i)
                  /\ alignSegments[j].label # alignSegments[i].label

\* C4: midpoint fallback: with no containing segment and none at the overlap
\* threshold the label is that of a segment with minimal midpoint distance;
\* with no segments at all it is 'Speaker'.
C4_Midpoint ==
    (AlignReturned /\ ContainingIdx = {} /\ KeptIdx = {}) => MidpointRule

\* two differently labelled segments at different midpoint distances, the
\* nearer one listed second, decided by the midpoint rule
C4_Witness ==
    /\ AlignReturned
    /\ ContainingIdx = {}
    /\ KeptIdx = {}
    /\ Len(alignSegments) = 2
    /\ MidGap(2) < MidGap(1)
    /\ alignSegments[1].label # alignSegments[2].label
    /\ alignLabel = alignSegments[2].label

----------------------------------------------------------------------------
(* mergeResults, stated on its arguments, its locals and its result *)

Done == pc = "done"

GoodIdx ==
    {i \in DOMAIN diarization :
        /\ diarization[i].end - diarization[i].start >= 10
        /\ diarization[i].confidence >= 80}

\* the j-th raw segment that is long and confident enough
NthGood(j) ==
    CHOOSE i \in GoodIdx : Cardinality({h \in GoodIdx : h <= i}) = j

RawLabel(d) ==
    IF d.label # << >> THEN d.label
    ELSE <<"S", "p", "e", "a", "k", "e", "r", "_">> \o d.id

GoodSegments ==
    [j \in 1..Cardinality(GoodIdx) |->
        LET d == diarization[NthGood(j)]
        IN  [d EXCEPT !.label = RawLabel(d)]]

\* C5: every raw segment shorter than 0.5 s or below confidence 0.8 is
\* excluded before any chunk is aligned, whatever its other attribute;
\* segments at exactly 0.5 s and 0.8 stay; every label assigned is the one
\* computed over the remaining segments only.
C5_FilteredFirst ==
    pc # "preprocess" =>
        LET good == GoodSegments
        IN  /\ validSegments = good
            /\ \A n \in DOMAIN speakers :
                   /\ speakers[n] =
                          findOptimalSpeaker(transcription[n].timestamp, good)
                   /\ \/ speakers[n] = GenericSpeaker
                      \/ \E i \in GoodIdx : speakers[n] = RawLabel(diarization[i])

\* a short confident segment and a long segment of confidence 0.79 that
\* contains the chunk 3.0-4.0 s were both dropped: the chunk got 'Speaker'
C5_Witness ==
    /\ Done
    /\ \E i \in DOMAIN diarization :
           /\ diarization[i].end - diarization[i].start < 10
           /\ diarization[i].confidence >= 80
    /\ \E i \in DOMAIN diarization :
           /\ diarization[i].end - diarization[i].start >= 10
           /\ diarization[i].confidence = 79
           /\ diarization[i].start <= 60
           /\ diarization[i].end >= 80
    /\ \E n \in DOMAIN transcription :
           /\ transcription[n].timestamp = <<60, 80>>
           /\ speakers[n] = GenericSpeaker

\* C6: a chunk is merged into the last emitted segment iff there is one, its
\* speaker is the chunk's speaker and chunk.start - last.end < 1.5 s;
\* otherwise exactly one new segment is appended.
C6_MergeRule ==
    [][ k' = k + 1 =>
          LET acc == formattedSegments
              n == Len(formattedSegments)
              chunk == transcription[k]
              speaker == speakers'[k]
          IN  IF /\ n > 0
                 /\ acc[n].speaker = speaker
                 /\ chunk.timestamp[1] - acc[n].end < 30
              THEN /\ Len(formattedSegments') = n
                   /\ \A i \in 1..(n - 1) : formattedSegments'[i] = acc[i]
                   /\ formattedSegments'[n].start = acc[n].start
                   /\ formattedSegments'[n].end = chunk.timestamp[2]
                   /\ formattedSegments'[n].speaker = speaker
              ELSE /\ Len(formattedSegments') = n + 1
                   /\ \A i \in 1..n : formattedSegments'[i] = acc[i]
                   /\ formattedSegments'[n + 1].start = chunk.timestamp[1]
                   /\ formattedSegments'[n + 1].end = chunk.timestamp[2]
                   /\ formattedSegments'[n + 1].speaker = speaker
      ]_vars

\* two same-speaker chunks 1.4 s apart ended in one merged segment
C6_Witness ==
    /\ Done
    /\ Len(transcription) = 2
    /\ transcription[2].timestamp[1] - transcription[1].timestamp[2] = 28
    /\ speakers[1] = speakers[2]
    /\ Len(formattedSegments) = 1
    /\ formattedSegments[1].end = transcription[2].timestamp[2]

\* C7 as stated: consecutive merged segments never share a speaker label and
\* are in non-decreasing start order.
C7_NeverShareSpeaker ==
    \A i \in 1..(Len(formattedSegments) - 1) :
        /\ formattedSegments[i].speaker # formattedSegments[i + 1].speaker
        /\ formattedSegments[i].start <= formattedSegments[i + 1].start

\* C7 amended: consecutive merged segments share a speaker label only across
\* a gap of at least 1.5 s, and are in non-decreasing start order.
C7_ShareOnlyAcrossGap ==
    \A i \in 1..(Len(formattedSegments) - 1) :
        /\ formattedSegments[i].speaker = formattedSegments[i + 1].speaker
               => formattedSegments[i + 1].start - formattedSegments[i].end >= 30
        /\ formattedSegments[i].start <= formattedSegments[i + 1].start

\* two consecutive merged segments of one speaker, and two of different speakers
C7_Witness ==
    /\ Done
    /\ \E i \in 1..(Len(formattedSegments) - 1) :
           formattedSegments[i].speaker = formattedSegments[i + 1].speaker
    /\ \E i \in 1..(Len(formattedSegments) - 1) :
           formattedSegments[i].speaker # formattedSegments[i + 1].speaker

RECURSIVE RenderedUpTo(_)
RenderedUpTo(n) ==
    IF n = 0 THEN << >>
    ELSE (IF n = 1 THEN << >> ELSE RenderedUpTo(n - 1) \o <<"\n", "\n">>)
         \o formattedSegments[n].speaker \o <<":", " ">> \o formattedSegments[n].text

\* C8: formattedText is the merged segments as '<speaker>: <text>', one entry
\* per segment in segment order, separated by '\n\n', nothing before the first
\* or after the last; the empty string for no segments.
C8_Rendering ==
    Done => formattedText = RenderedUpTo(Len(formattedSegments))

\* three merged segments were rendered
C8_Witness ==
    /\ Done
    /\ Len(formattedSegments) = 3
    /\ Len(formattedText) > 4

ScenarioChunks ==
    << Chunk(0, 20, Chars_hello), Chunk(20, 40, Chars_there),
       Chunk(60, 80, Chars_how_are_you) >>

ScenarioSegments ==
    << RawSegment(<<"A">>, 0, 40, 90, << >>),
       RawSegment(<<"B">>, 60, 100, 90, << >>) >>

Scenario == transcription = ScenarioChunks /\ diarization = ScenarioSegments

\* C9 as stated: the end-to-end scenario yields
\* 'A: hello there\n\nB: how are you'.
C9_ScenarioBareIds ==
    (Scenario /\ Done) =>
        formattedText =
            <<"A", ":", " ">> \o Chars_hello \o <<" ">> \o Chars_there
            \o <<"\n", "\n">> \o <<"B", ":", " ">> \o Chars_how_are_you

\* C9 amended: the end-to-end scenario yields two merged segments and
\* 'Speaker_A: hello there\n\nSpeaker_B: how are you'.
C9_ScenarioPrefixedIds ==
    (Scenario /\ Done) =>
        /\ Len(formattedSegments) = 2
        /\ formattedText =
               <<"S", "p", "e", "a", "k", "e", "r", "_", "A", ":", " ">>
               \o Chars_hello \o <<" ">> \o Chars_there \o <<"\n", "\n">>
               \o <<"S", "p", "e", "a", "k", "e", "r", "_", "B", ":", " ">>
               \o Chars_how_are_you

\* the scenario ran to the end
C9_Witness == Scenario /\ Done /\ Len(speakers) = 3

ChunkGap(n) == transcription[n].timestamp[1] - transcription[n - 1].timestamp[2]

AllGeneric ==
    /\ \A n \in DOMAIN speakers : speakers[n] = GenericSpeaker
    /\ \A i \in DOMAIN formattedSegments :
           formattedSegments[i].speaker = GenericSpeaker

\* C10 as stated (for a non-empty chunk sequence): with no diarization
\* segments every chunk is tagged 'Speaker' and there is exactly one merged block.
C10_OneBlock ==
    (Done /\ diarization = << >> /\ transcription # << >>) =>
        /\ AllGeneric
        /\ Len(formattedSegments) = 1

RECURSIVE TrimmedTexts(_)
TrimmedTexts(n) ==
    IF n = 1 THEN trim(transcription[1].text)
    ELSE TrimmedTexts(n - 1) \o <<" ">> \o trim(transcription[n].text)

\* C10 amended: with no diarization segments every chunk is tagged 'Speaker'
\* and assembly ends with one block per run of chunks whose gaps are below
\* 1.5 s: exactly one block, holding all chunk texts, iff the sequence is
\* non-empty and no chunk starts 1.5 s or more after the previous one's end.
C10_BlocksPerRun ==
    (Done /\ diarization = << >>) =>
        /\ AllGeneric
        /\ Len(speakers) = Len(transcription)
        /\ Len(formattedSegments) =
               IF transcription = << >> THEN 0
               ELSE 1 + Cardinality({n \in 2..Len(transcription) : ChunkGap(n) >= 30})
        /\ Len(formattedSegments) = 1 =>
               formattedSegments[1].text = TrimmedTexts(Len(transcription))

\* three chunks without diarization ended in one block
C10_Witness ==
    /\ Done
    /\ diarization = << >>
    /\ Len(transcription) = 3
    /\ Len(formattedSegments) = 1
    /\ AllGeneric

----------------------------------------------------------------------------
(* Streaming component: steps and sets the statements below refer to *)

Range(s) == {s[i] : i \in DOMAIN s}

\* the frames of the generate messages the worker has not yet received
QueuedFrames ==
    UNION {Frames(mic.toWorker[i].audio) : i \in DOMAIN mic.toWorker}

\* the frames of the generate calls that are running
RunningFrames == UNION {Frames(wk.calls[i].audio) : i \in DOMAIN wk.calls}

QueuedGenerates ==
    Cardinality({i \in DOMAIN mic.toWorker : mic.toWorker[i].type = "generate"})

\* a frame with a non-zero sample was handled in this step
FrameStep == mic'.frames = mic.frames + 1

\* an all-zero frame was handled in this step, after a frame that was not
SilentStep == ~mic.lastSilent /\ mic'.lastSilent

\* a block was handed to worker.postMessage in this step
DispatchStep == mic'.dispatches = mic.dispatches + 1

\* worker.postMessage threw in this step
ThrowStep == FrameStep /\ mic'.faults = mic.faults + 1

\* the component handled a message of the worker in this step
MessageStep(status) ==
    /\ toMain # << >>
    /\ Head(toMain).status = status
    /\ toMain' = Tail(toMain)

\* the throttled function ran in this step
SinkStep == mic'.sinkRuns = mic.sinkRuns + 1

\* await transcriber(fullAudio) threw in this step
PipelineRejectStep ==
    /\ mic'.faults = mic.faults + 1
    /\ mic'.frames = mic.frames
    /\ mic'.acquiring = mic.acquiring

----------------------------------------------------------------------------
(* C12: at most one generate call of the worker is in progress at any      *)
(* time, whatever 'generate' and 'finalize' messages it has received and   *)
(* across consecutive recordings.                                          *)
C12_SingleFlight == Len(wk.calls) <= 1

----------------------------------------------------------------------------
(* C13: while a dispatched block is outstanding no further block is        *)
(* dispatched, and every captured frame with a non-zero sample is still in *)
(* the rolling buffer, on its way to the worker, being recognised, or has  *)
(* been recognised: none is cleared from the buffer and left unrecognised. *)
(* Stated for runs in which no call of the platform has thrown.             *)
C13_NoAudioLost ==
    mic.faults = 0 =>
        /\ QueuedGenerates + Len(wk.calls) <= 1
        /\ \A f \in 1..mic.frames :
             f \in Range(mic.audioBuffers) \cup QueuedFrames
                   \cup RunningFrames \cup wk.recognised

----------------------------------------------------------------------------
(* Dispatch cadence of onaudioprocess *)

IsArrivalOrder(block) ==
    \A i \in 1..(Len(block) - 1) : block[i] < block[i + 1]

\* what a step that handles a frame with a non-zero sample does when a
\* dispatch is due, and when it is not
CadenceStep(due) ==
    LET buffered == Append(mic.audioBuffers, mic'.frames)
    IN  IF due
        THEN /\ DispatchStep
             /\ mic'.audioBuffers = << >>
             /\ IsArrivalOrder(buffered)
             /\ \/ ThrowStep
                \/ mic'.toWorker =
                       Append(mic.toWorker,
                              [type |-> "generate", audio |-> buffered])
        ELSE /\ ~DispatchStep
             /\ mic'.audioBuffers = buffered
             /\ mic'.toWorker = mic.toWorker

----------------------------------------------------------------------------
----------------------------------------------------------------------------
(* C16: when submitting a block throws, the error is reported to the alert *)
(* store and capture goes on: the capture graph stays connected.           *)
C16_CaptureContinues ==
    [][ThrowStep =>
          /\ Len(mic'.alerts) = Len(mic.alerts) + 1
          /\ mic'.alerts[Len(mic'.alerts)] = "Audio sending failed"
          /\ mic'.graphs = mic.graphs]_vars

----------------------------------------------------------------------------
(* C17: the text of an 'update' message is stripped of [BLANK_AUDIO]       *)
(* markers and handed to the throttled function only if what remains is    *)
(* not empty; two consecutive runs of the throttled function are at least  *)
(* 200 ms apart; each run publishes the accumulated transcript followed by *)
(* the partial text it was handed.                                         *)
C17_ThrottledPublish ==
    [][/\ MessageStep("update") =>
            LET output == Head(toMain).output
                stripped == SelectSeq(output, LAMBDA c : c # Marker)
                handed == trim(stripped)
            IN  IF handed = << >>
                THEN /\ ~SinkStep
                     /\ mic'.lastFunc = mic.lastFunc
                     /\ mic'.modelValue = mic.modelValue
                ELSE \/ SinkStep /\ mic'.partialResult = handed
                     \/ /\ ~SinkStep
                        /\ mic'.lastFunc # << >>
                        /\ mic'.lastFunc[1].args = handed
       /\ SinkStep =>
            /\ mic.sinceSink < 0 \/ mic.sinceSink >= ThrottleLimit
            /\ mic'.partialResult # << >>
            /\ Marker \notin Range(mic'.partialResult)
            /\ mic'.modelValue = mic.accumulatedText \o mic'.partialResult
            /\ MessageStep("update") \/ mic'.partialResult = mic.lastFunc[1].args
      ]_vars

\* the throttled function has just run for the second time, from its timer
C17_Witness ==
    /\ mic.sinkRuns >= 2
    /\ mic.sinceSink = 0
    /\ mic.lastFunc = << >>

----------------------------------------------------------------------------
(* C18: on a 'complete' message the cleaned final text of the block, as    *)
(* the recognizer delivered it, followed by one space, is appended to the  *)
(* accumulated transcript, the partial text is cleared, and the            *)
(* accumulated transcript is what is shown.                                *)
C18_FinalTextAppended ==
    [][MessageStep("complete") =>
          LET finalText == filterText(Head(toMain).output)
          IN  /\ mic'.accumulatedText =
                     IF finalText = << >> THEN mic.accumulatedText
                     ELSE mic.accumulatedText \o finalText \o <<" ">>
              /\ mic'.partialResult = << >>
              /\ mic'.modelValue = cleanText(mic'.accumulatedText)]_vars

----------------------------------------------------------------------------
(* C19: once the recording is marked stopped, 'update' and 'complete'      *)
(* messages of a recognition that was still running do not change the      *)
(* transcript shown; in particular it stays the text of the final pass     *)
(* once that has succeeded.                                                *)
C19_StoppedIgnoresWorker ==
    [][(/\ ~mic.micActive
        /\ mic.acquiring = {}
        /\ mic.graphs = {}
        /\ MessageStep("update") \/ MessageStep("complete"))
          => mic'.modelValue = mic.modelValue]_vars

----------------------------------------------------------------------------
(* C20: when the final pass over the whole recording fails, the live       *)
(* accumulated transcript is emitted as the result of the recording and    *)
(* the failure is reported as an alert.                                    *)
C20_FallbackOnFailure ==
    [][PipelineRejectStep =>
          /\ Len(mic'.alerts) = Len(mic.alerts) + 1
          /\ mic'.alerts[Len(mic'.alerts)] = "Complete audio processing failed"
          /\ Len(mic'.emitted) = Len(mic.emitted) + 1
          /\ mic'.emitted[Len(mic'.emitted)].text =
                 cleanText(mic.accumulatedText)]_vars

----------------------------------------------------------------------------
(* C21: the final pass is not run again by the error handling: the step in *)
(* which `await transcriber(fullAudio)` throws leaves fewer transcriber    *)
(* calls outstanding than there were, so a failed final pass is not        *)
(* followed by another one over the same recording.                        *)
C21_FailedPassNotRerun ==
    [][PipelineRejectStep =>
          Len(mic'.finalCalls) < Len(mic.finalCalls)]_vars

----------------------------------------------------------------------------
(* C22: a recording gives at most one textAvailable: no two emitted        *)
(* payloads carry audio of the same recording (frames are numbered in the  *)
(* order of their arrival, so payloads of different recordings share no    *)
(* frame).                                                                 *)
C22_OneResultPerRecording ==
    \A i, j \in DOMAIN mic.emitted :
       i # j => Frames(mic.emitted[i].audio)
                    \cap Frames(mic.emitted[j].audio) = {}

----------------------------------------------------------------------------
(* C25: no block is handed to the worker while the recording is marked     *)
(* stopped: every dispatch happens with micActive true, so after the stop  *)
(* of a recording nothing of it is dispatched any more.                    *)
C25_NoDispatchAfterStop ==
    [][DispatchStep => mic.micActive]_vars

----------------------------------------------------------------------------
(* C26: when getUserMedia rejects, the alert "Microphone access failed" is *)
(* shown, the microphone is marked inactive afterwards, no final pass is   *)
(* started and nothing is emitted.                                         *)

\* a pending getUserMedia call rejected in this step
AcquireFailStep ==
    /\ mic'.faults = mic.faults + 1
    /\ mic'.acquiring # mic.acquiring

C26_AcquireFailureStops ==
    [][AcquireFailStep =>
          /\ Len(mic'.alerts) = Len(mic.alerts) + 1
          /\ mic'.alerts[Len(mic'.alerts)] = "Microphone access failed"
          /\ ~mic'.micActive
          /\ mic'.finalCalls = mic.finalCalls
          /\ mic'.emitted = mic.emitted]_vars

----------------------------------------------------------------------------
(* C27: a generate call that failed does not keep later blocks from being  *)
(* recognised: the worker drops a 'generate' message only while a generate *)
(* call is running.                                                        *)

\* the worker received a 'generate' message and returned at once
WorkerSkipStep == wk'.skipped # wk.skipped

C27_SkipOnlyWhileRunning ==
    [][WorkerSkipStep => wk.calls # << >>]_vars

----------------------------------------------------------------------------
(* C29: the first rule that matches decides.  When some segment contains   *)
(* the chunk, the label is that of a containing segment, also when a       *)
(* segment that does not contain it reaches the overlap threshold with a   *)
(* higher confidence; when none contains it and some segment reaches the   *)
(* threshold, the label is that of a segment reaching it, whichever        *)
(* segment has the nearest midpoint.                                       *)
C29_FirstRuleWins ==
    AlignReturned =>
        /\ ContainingIdx # {} => LabelAmong(ContainingIdx)
        /\ (ContainingIdx = {} /\ KeptIdx # {}) => LabelAmong(KeptIdx)

\* a 0.9 segment containing the chunk won against a differently labelled
\* 0.95 segment, listed first, that overlaps 0.35 of it or more
C29_Witness ==
    /\ AlignReturned
    /\ Len(alignSegments) = 2
    /\ ContainingIdx = {2}
    /\ 1 \in KeptIdx
    /\ alignSegments[1].confidence > alignSegments[2].confidence
    /\ alignSegments[1].label # alignSegments[2].label
    /\ alignLabel = alignSegments[2].label

----------------------------------------------------------------------------
(* C30: the merged segments cut the chunk sequence into consecutive runs,  *)
(* one run per segment and every chunk in exactly one run: a segment       *)
(* starts where the first chunk of its run starts, ends where the last     *)
(* one ends, and its text is the trimmed texts of the chunks of its run,   *)
(* in order, joined by single spaces.                                      *)

\* the trimmed texts of chunks a..b joined by single spaces
RECURSIVE RunText(_, _)
RunText(a, b) ==
    IF a = b THEN trim(transcription[a].text)
    ELSE RunText(a, b - 1) \o <<" ">> \o trim(transcription[b].text)

\* last[j] is the last chunk of segment j
IsCover(last) ==
    /\ last[Len(formattedSegments)] = Len(transcription)
    /\ \A j \in DOMAIN formattedSegments :
          LET first == IF j = 1 THEN 1 ELSE last[j - 1] + 1
              seg == formattedSegments[j]
          IN  /\ first <= last[j]
              /\ seg.start = transcription[first].timestamp[1]
              /\ seg.end = transcription[last[j]].timestamp[2]
              /\ seg.text = RunText(first, last[j])

C30_SegmentsCoverChunks ==
    Done =>
        IF transcription = << >> THEN formattedSegments = << >>
        ELSE /\ formattedSegments # << >>
             /\ \E last \in [DOMAIN formattedSegments -> DOMAIN transcription] :
                    IsCover(last)

\* three chunks ended in two segments, the first of them made of two chunks
\* with different ends
C30_Witness ==
    /\ Done
    /\ Len(transcription) = 3
    /\ Len(formattedSegments) = 2
    /\ formattedSegments[1].end = transcription[2].timestamp[2]
    /\ transcription[1].timestamp[2] # transcription[2].timestamp[2]
    /\ formattedSegments[2].start = transcription[3].timestamp[1]

----------------------------------------------------------------------------
(* C23: the onstop handler starts the transcriber call and                 *)
(* processDiarization together (a job has started both or neither), and    *)
(* mergeResults has run for a job only when both had completed: it was     *)
(* given the values the two delivered, never a result still outstanding.   *)

MergedJobs == {i \in DOMAIN rec.jobs : rec.jobs[i].handler = "merged"}

C23_JoinAfterBoth ==
    /\ \A i \in DOMAIN rec.jobs :
          (rec.jobs[i].t = "none") <=> (rec.jobs[i].d = "none")
    /\ \A i \in MergedJobs :
          /\ rec.jobs[i].t = "fulfilled"
          /\ rec.jobs[i].d = "fulfilled"
          /\ \E n \in DOMAIN rec.emitted :
                rec.emitted[n] =
                    mergeResults(rec.jobs[i].tValue, rec.jobs[i].dValue)
    /\ Len(rec.emitted) = Cardinality(MergedJobs)

\* a recording was merged from two chunks and two diarization segments
C23_Witness ==
    \E i \in MergedJobs :
       /\ Len(rec.jobs[i].tValue) = 2
       /\ Len(rec.jobs[i].dValue) = 2
       /\ Len(rec.emitted) = 1
       /\ Len(rec.emitted[1].segments) = 2

----------------------------------------------------------------------------
(* C24: one failing task does not fail the recording: whenever the onstop  *)
(* handler of a recording whose two tasks were started comes to its end, a *)
(* result is emitted.                                                      *)
C24_HandlerAlwaysEmits ==
    [][\A i \in DOMAIN rec.jobs :
          (rec.jobs[i].handler = "awaiting" /\ rec'.jobs[i].handler # "awaiting")
             => Len(rec'.emitted) = Len(rec.emitted) + 1]_vars

----------------------------------------------------------------------------
(* C28: models are loaded at most once.  In the worker, from_pretrained is *)
(* called at most once per field however many times getInstance is called, *)
(* and every caller is handed the same three promises.  In                 *)
(* WebLLMImplementation at most one setup is in progress at a time, a      *)
(* setup is started only when every earlier one has failed, and every      *)
(* caller that reached the completion used the one engine.                 *)

SetupsInProgress ==
    {i \in DOMAIN ld.llm.calls : ld.llm.calls[i].at = "setup"}

C28_LoadedAtMostOnce ==
    /\ \A c \in Components : ld.asr.started[c] <= 1
    /\ \A i, j \in DOMAIN ld.asr.callers : ld.asr.callers[i] = ld.asr.callers[j]
    /\ Cardinality(SetupsInProgress) <= 1
    /\ ld.llm.engineLoading <=> SetupsInProgress # {}
    /\ ld.llm.setups <= ld.llm.failedSetups + 1
    /\ \A i \in DOMAIN ld.llm.calls :
          ld.llm.calls[i].at \in {"completion", "returned"}
             => /\ ld.llm.calls[i].engine = ld.llm.engine
                /\ ld.llm.engine # 0

\* getInstance was called a second time while the tokenizer was still
\* loading, and one call of create sleeps while the other awaits its setup
C28_Witness ==
    /\ Len(ld.asr.callers) = 2
    /\ ld.asr.promise["tokenizer"].state = "pending"
    /\ \A c \in Components : ld.asr.started[c] = 1
    /\ \E i, j \in DOMAIN ld.llm.calls :
          /\ ld.llm.calls[i].at = "setup"
          /\ ld.llm.calls[j].at = "sleep"

----------------------------------------------------------------------------
(* C31: the audio handed to the final pass is audio of the recording that  *)
(* is stopped: it holds no frame that the capture graph of an earlier      *)
(* recording delivered.                                                    *)
C31_OwnAudioOnly ==
    \A i \in DOMAIN mic.finalCalls :
       Frames(mic.finalCalls[i]) \cap mic.stray = {}

----------------------------------------------------------------------------
(* C33: a throttled update that was pending in its timer when a 'complete' *)
(* message cleared the partial text publishes nothing when its timer       *)
(* fires: the partial text and the transcript shown stay as they were.     *)

\* the timer of throttle fired in this step
ThrottleTimerStep == mic.lastFunc # << >> /\ mic'.lastFunc = << >>

C33_NoStalePartial ==
    [][(ThrottleTimerStep /\ mic.lastFunc[1].stale)
          => /\ mic'.partialResult = mic.partialResult
             /\ mic'.modelValue = mic.modelValue]_vars

----------------------------------------------------------------------------
(* C34: a recording is started only when no block of an earlier recording  *)
(* is on its way to the worker or being recognised.                        *)

\* startRecording was called in this step
SessionStartStep == mic'.sessions = mic.sessions + 1

C34_NoStartWhileRecognising ==
    [][SessionStartStep => (wk.calls = << >> /\ QueuedGenerates = 0)]_vars

----------------------------------------------------------------------------
(* C35: a connected capture graph means micActive is true, and at most one *)
(* capture graph is connected at a time.                                   *)
C35_CaptureImpliesActive ==
    /\ mic.graphs # {} => mic.micActive
    /\ Cardinality(mic.graphs) <= 1

----------------------------------------------------------------------------
(* C37: the step in which the final pass fails ends the stopping of the    *)
(* recording: afterwards micActive is false and no final pass is in        *)
(* progress, so that failures of the final pass cannot follow one another  *)
(* without end.                                                            *)
C37_FailureEndsStop ==
    [][PipelineRejectStep =>
          /\ ~mic'.micActive
          /\ ~mic'.isProcessing_normalpipeline
          /\ mic'.finalCalls = << >>]_vars

----------------------------------------------------------------------------
(* C38: each loading counter equals the number of getResponse calls of its *)
(* kind that are in flight (counted, and neither returned nor failed): it  *)
(* is never negative, a call refused by the dependency check is not        *)
(* counted, and both are 0 when no call is in flight.                      *)

InFlight == {i \in DOMAIN ld.llm.calls :
                ld.llm.calls[i].at \notin {"refused", "returned", "threw"}}

C38_CountersMatchInFlight ==
    /\ ld.llm.newWordsLoading =
           Cardinality({i \in InFlight : ld.llm.calls[i].wordLoading})
    /\ ld.llm.newSentenceLoading =
           Cardinality({i \in InFlight : ld.llm.calls[i].sentenceLoading})
    /\ ld.llm.newWordsLoading >= 0
    /\ ld.llm.newSentenceLoading >= 0

\* a call whose create threw and a call that returned have both been
\* counted down
C38_Witness ==
    /\ Len(ld.llm.calls) = 2
    /\ ld.llm.calls[1].at = "threw"
    /\ ld.llm.calls[2].at = "returned"
    /\ ld.llm.calls[1].wordLoading
    /\ ld.llm.calls[2].sentenceLoading
    /\ ld.llm.newWordsLoading = 0
    /\ ld.llm.newSentenceLoading = 0

----------------------------------------------------------------------------
(* C39: create gives up after exactly 4 attempts (RetryCount + 1) when     *)
(* each of them fails, a call that has returned is not taken up again, and *)
(* engineLoading is true exactly while a setup is in progress.             *)
C39_BoundedAttempts ==
    [][/\ \A i \in DOMAIN ld'.llm.calls :
             /\ ld'.llm.calls[i].at = "threw"
                   => ld'.llm.calls[i].attempts = RetryCount + 1
             /\ ld'.llm.calls[i].attempts <= RetryCount + 1
       /\ \A i \in DOMAIN ld.llm.calls :
             ld.llm.calls[i].at = "returned"
                => ld'.llm.calls[i] = ld.llm.calls[i]
       /\ ld'.llm.engineLoading
             <=> \E i \in DOMAIN ld'.llm.calls : ld'.llm.calls[i].at = "setup"
      ]_vars

\* a call gave up after four failed attempts, the last of them a failed
\* setup, and the flag is down
C39_Witness ==
    /\ \E i \in DOMAIN ld.llm.calls :
          /\ ld.llm.calls[i].at = "threw"
          /\ ld.llm.calls[i].attempts = 4
    /\ ld.llm.failedSetups = 4
    /\ ~ld.llm.engineLoading

-----------------------------------------------------------------------------
(* C36: the cleanup at the end of the processing of a stopped recording     *)
(* releases only that recording's resources: when the handler of a          *)
(* recording comes to its end while the stream in use belongs to another    *)
(* session, the stream, the recorder and the chunks are left as they are.   *)
HandlerEndStep(i) ==
    /\ rec.jobs[i].handler = "awaiting"
    /\ rec'.jobs[i].handler # "awaiting"

C36_CleanupOwnSessionOnly ==
    [][\A i \in DOMAIN rec.jobs :
         (HandlerEndStep(i) /\ rec.audioStream \notin {0, rec.jobs[i].session})
            => /\ rec'.audioStream = rec.audioStream
               /\ rec'.mediaRecorder = rec.mediaRecorder
               /\ rec'.audioChunks = rec.audioChunks
               /\ rec'.liveStreams = rec.liveStreams]_vars

-----------------------------------------------------------------------------
(* C32: the label findOptimalSpeaker returns does not depend on the order   *)
(* in which the segments are listed, ties included: every permutation of    *)
(* the segment list gives the label that was returned.                      *)
Reorderings(seq) ==
    LET n == Len(seq)
        bijections == {f \in [1..n -> 1..n] : \A i, j \in 1..n :
                                                 f[i] = f[j] => i = j}
    IN  { [i \in 1..n |-> seq[f[i]]] : f \in bijections }

C32_OrderIndependent ==
    AlignReturned =>
        \A p \in Reorderings(alignSegments) :
            findOptimalSpeaker(alignTimestamp, p) = alignLabel

(* C32, amended: the order matters only between tied best segments. The    *)
(* qualifying segments are the containing ones if any, else the ones       *)
(* reaching the overlap threshold if any, else all; the best are those of  *)
(* highest confidence (rules 1 and 2) or least midpoint distance (rule 3). *)
(* Every permutation gives the label of its first listed best segment, so  *)
(* the label changes only when two best segments carry different labels.   *)
SegmentSet(seq) == {seq[i] : i \in DOMAIN seq}

ContainingSet == {s \in SegmentSet(alignSegments) :
                      isContaining(AlignStart, AlignEnd, s)}

OverlappingSet == {s \in SegmentSet(alignSegments) :
                       hasMeaningfulOverlap(AlignStart, AlignEnd, s)}

QualifyingSet ==
    IF ContainingSet # {} THEN ContainingSet
    ELSE IF OverlappingSet # {} THEN OverlappingSet
    ELSE SegmentSet(alignSegments)

ByConfidence == ContainingSet # {} \/ OverlappingSet # {}

BestSet ==
    LET qualifying == QualifyingSet
        byConfidence == ByConfidence
        score(s) == IF byConfidence THEN s.confidence
                    ELSE 0 - midDistance(AlignStart, AlignEnd, s)
        top == CHOOSE m \in {score(s) : s \in qualifying} :
                   \A s \in qualifying : score(s) <= m
    IN  IF qualifying = {} THEN {}
        ELSE {s \in qualifying : score(s) = top}

FirstBestLabel(seq, best) ==
    IF seq = << >> THEN GenericSpeaker
    ELSE LET first == CHOOSE i \in DOMAIN seq :
                         /\ seq[i] \in best
                         /\ \A j \in 1..(i - 1) : seq[j] \notin best
         IN  seq[first].label

C32_OrderMattersOnlyOnTies ==
    AlignReturned =>
        LET best == BestSet
            tied == \E s, t \in best : s.label # t.label
        IN  /\ alignLabel = FirstBestLabel(alignSegments, best)
            /\ \A p \in Reorderings(alignSegments) :
                  LET label == findOptimalSpeaker(alignTimestamp, p)
                  IN  /\ label = FirstBestLabel(p, best)
                      /\ label # alignLabel => tied

\* two segments at the same midpoint distance with different labels: the
\* first listed decided, and the reversed list gives the other label
C32_Witness ==
    /\ AlignReturned
    /\ Len(alignSegments) = 2
    /\ ~ByConfidence
    /\ Cardinality(BestSet) = 2
    /\ alignSegments[1].label # alignSegments[2].label
    /\ alignLabel = alignSegments[1].label
    /\ findOptimalSpeaker(alignTimestamp,
                          <<alignSegments[2], alignSegments[1]>>)
          = alignSegments[2].label

====
